---- MODULE Spec2Model ----
(***************************************************************************)
(* Model of the Isle of Man weather scraper (src/weather_scraper.py):      *)
(* the extraction of forecast records from a fetched page, the sqlite      *)
(* store behind one connection (committed rows and the connection's open   *)
(* transaction), the DatabaseLogger with its file fallback, and main's     *)
(* fetch / dedup / scrape / insert / status pipeline.                      *)
(*                                                                         *)
(* None is modelled per type: NoId (0) for an absent row id, NoDate (<<>>) *)
(* for an absent date or datetime, NoText for an absent field value.       *)
(***************************************************************************)
EXTENDS Integers, Sequences, FiniteSets, TLC

VARIABLES
    today,            \* the system clock's calendar day, as a day number
    db,               \* data.db: the committed rows of the four tables
    cur,              \* the rows the open connection sees (committed + open transaction)
    fileLog,          \* weather_scraper.log, the logging module's file sink
    conn,             \* main's connection: "none", "open", "closed", "abandoned"
    pc,               \* main's position
    run,              \* number of runs started; stands for datetime.now() in log rows
    faults,           \* storage operations that failed so far (bounded by MaxFaults)
    html_content,     \* main's html_content (0: None)
    hit,              \* main: what check_content_exists returned (-1: not called, 0: None)
    issued_on,        \* main's issued_on
    forecast_data,    \* main's forecast_data
    html_content_id,  \* main: what insert_data returned (-1: not called, 0: None)
    logger_id,        \* logger.html_content_id
    arg,              \* argument of the function applied (function specifications)
    ret               \* its result

vars == <<today, db, cur, fileLog, conn, pc, run, faults, html_content, hit,
          issued_on, forecast_data, html_content_id, logger_id, arg, ret>>

----------------------------------------------------------------------------
(* Bounds *)

\* days the system clock ranges over: EpochDate .. EpochDate + MaxDay
MaxDay == 2
\* runs of main in one behaviour
MaxRuns == 2
\* storage operations that fail in one behaviour
MaxFaults == 1
\* issued-on years calculate_date is applied to: 2023 .. 2023 + YearSpan
YearSpan == 1
\* day headers of a page scrape_weather_data is applied to
MaxHeaders == 2

NoId == 0
NoDate == <<>>
NoText == "None"

----------------------------------------------------------------------------
(* datetime.date: <<year, month, day>>; Python compares dates               *)
(* chronologically, sqlite compares their ISO texts, both in this order.    *)

IsLeap(y) == (y % 4 = 0 /\ y % 100 # 0) \/ y % 400 = 0

DaysInMonth(y, m) ==
    IF m = 2 THEN (IF IsLeap(y) THEN 29 ELSE 28)
    ELSE IF m \in {4, 6, 9, 11} THEN 30 ELSE 31

IsDate(d) == Len(d) = 3 /\ d[2] \in 1..12 /\ d[3] \in 1..DaysInMonth(d[1], d[2])

DateLT(a, b) ==
    \/ a[1] < b[1]
    \/ a[1] = b[1] /\ a[2] < b[2]
    \/ a[1] = b[1] /\ a[2] = b[2] /\ a[3] < b[3]

DateLE(a, b) == a = b \/ DateLT(a, b)

NextDay(d) ==
    IF d[3] < DaysInMonth(d[1], d[2]) THEN <<d[1], d[2], d[3] + 1>>
    ELSE IF d[2] < 12 THEN <<d[1], d[2] + 1, 1>>
    ELSE <<d[1] + 1, 1, 1>>

PrevDay(d) ==
    IF d[3] > 1 THEN <<d[1], d[2], d[3] - 1>>
    ELSE IF d[2] > 1 THEN <<d[1], d[2] - 1, DaysInMonth(d[1], d[2] - 1)>>
    ELSE <<d[1] - 1, 12, 31>>

RECURSIVE AddDays(_, _)
\* date + timedelta(days=n)
AddDays(d, n) ==
    IF n = 0 THEN d
    ELSE IF n > 0 THEN AddDays(NextDay(d), n - 1)
    ELSE AddDays(PrevDay(d), n + 1)

\* day 0 of the system clock; the clock's range spans a year boundary
EpochDate == <<2023, 12, 30>>

\* date.today() when the system clock shows day number n
DateOf(n) == AddDays(EpochDate, n)

\* the day number of a date near the clock's range
OrdinalOf(d) == CHOOSE n \in (0 - 3)..(MaxDay + 3) : DateOf(n) = d

----------------------------------------------------------------------------
(* Day labels: the text of an <h2>.  text is the label's shape; day and    *)
(* month are what '%d %B' reads when the shape is '%A, %d %B' (the weekday  *)
(* name is read by '%A' and never compared with the date).                  *)

Label(t) == [text |-> t, day |-> 0, month |-> 0]
DayLabel(d, m) == [text |-> "%A, %d %B", day |-> d, month |-> m]

\* datetime.strptime(date_str, '%A, %d %B'): the year defaults to 1900
StrptimeDayMonth(date_str) ==
    IF date_str.text = "%A, %d %B" /\ date_str.month \in 1..12
       /\ date_str.day \in 1..DaysInMonth(1900, date_str.month)
    THEN <<1900, date_str.month, date_str.day>>
    ELSE NoDate

\* datetime.replace(year=y); NoDate stands for the ValueError
ReplaceYear(d, y) ==
    IF d # NoDate /\ d[3] <= DaysInMonth(y, d[2]) THEN <<y, d[2], d[3]>> ELSE NoDate

\* calculate_date(issued_on, date_str, logger): the date, and what it logs at ERROR
calculate_date(issued, date_str) ==
    IF date_str.text = "Today" THEN [date |-> issued, logs |-> <<>>]
    ELSE IF date_str.text = "Tomorrow" THEN [date |-> AddDays(issued, 1), logs |-> <<>>]
    ELSE LET parsed == StrptimeDayMonth(date_str)
             day_date == ReplaceYear(parsed, issued[1])
             rolled == IF day_date # NoDate /\ DateLT(day_date, issued)
                       THEN ReplaceYear(day_date, issued[1] + 1)
                       ELSE day_date
         IN  IF parsed = NoDate \/ day_date = NoDate \/ rolled = NoDate
             THEN [date |-> NoDate, logs |-> <<"Error calculating date">>]
             ELSE [date |-> rolled, logs |-> <<>>]

----------------------------------------------------------------------------
(* The page.  issued is the 'div.weather-issued' banner: its shape and the *)
(* date it prints.  days are the <h2> headers in document order, each with  *)
(* the 'div.weather-detailed' block that follows it before the next header  *)
(* (NoBlock: none).  A block holds the selectors that match inside it, the  *)
(* attributes its elements carry, and the shape of the wind title.          *)

Selectors ==
    {"div.temperature-max", "div.temperature-min", "span.wind-speed",
     "img.weather-state", "div.weather-value p",
     "div.weather-detail:nth-of-type(2) div.weather-value p",
     "div.weather-detail:nth-of-type(3) div.weather-value p",
     "div.weather-detail:nth-of-type(4) div.weather-value",
     "div.weather-detail:nth-of-type(5) div.weather-value p"}

Attributes == {"title", "alt"}

NoBlock == [v |-> 0, elems |-> {}, attrs |-> {}, title |-> ""]

\* the block of header number v with everything in place
FullBlock(v) == [v |-> v, elems |-> Selectors, attrs |-> Attributes, title |-> "Direction: SW"]

\* a field value: the text or attribute of the element a selector found in block v
Value(v, selector, attribute) ==
    [block |-> v, selector |-> selector, attr |-> attribute, form |-> "raw"]

NoValue == [block |-> 0, selector |-> NoText, attr |-> "", form |-> ""]

\* safe_find with an ERROR entry for every lookup that finds nothing
safe_find_logs_every_miss(element, selector, attribute) ==
    IF element # NoBlock /\ selector \in element.elems
       /\ (attribute = "" \/ attribute \in element.attrs)
    THEN [value |-> Value(element.v, selector, attribute), logs |-> <<>>]
    ELSE [value |-> NoValue, logs |-> <<"Error finding element with selector">>]

\* safe_find(element, selector, attribute, logger): the value, and what it logs at ERROR
safe_find(element, selector, attribute) ==
    IF element = NoBlock
    THEN [value |-> NoValue, logs |-> <<"Error finding element with selector">>]
    ELSE IF selector \notin element.elems THEN [value |-> NoValue, logs |-> <<>>]
    ELSE IF attribute = "" THEN [value |-> Value(element.v, selector, ""), logs |-> <<>>]
    ELSE IF attribute \in element.attrs
         THEN [value |-> Value(element.v, selector, attribute), logs |-> <<>>]
         ELSE [value |-> NoValue, logs |-> <<>>]

\* the forecast dict's keys after 'date', in the order they are looked up
Lookups ==
    << [field |-> "max_temp", selector |-> "div.temperature-max", attribute |-> ""],
       [field |-> "min_temp", selector |-> "div.temperature-min", attribute |-> ""],
       [field |-> "wind_speed", selector |-> "span.wind-speed", attribute |-> ""],
       [field |-> "wind_direction", selector |-> "span.wind-speed", attribute |-> "title"],
       [field |-> "weather_state", selector |-> "img.weather-state", attribute |-> "alt"],
       [field |-> "description", selector |-> "div.weather-value p", attribute |-> ""],
       [field |-> "wind",
        selector |-> "div.weather-detail:nth-of-type(2) div.weather-value p", attribute |-> ""],
       [field |-> "visibility",
        selector |-> "div.weather-detail:nth-of-type(3) div.weather-value p", attribute |-> ""],
       [field |-> "rainfall",
        selector |-> "div.weather-detail:nth-of-type(4) div.weather-value", attribute |-> ""],
       [field |-> "comments",
        selector |-> "div.weather-detail:nth-of-type(5) div.weather-value p", attribute |-> ""] >>

Fields == {Lookups[i].field : i \in 1..Len(Lookups)}

LookupOf(f) == CHOOSE i \in 1..Len(Lookups) : Lookups[i].field = f

RECURSIVE find_next(_, _)
\* day.find_next('div', class_='weather-detailed'): the first block after header k,
\* wherever in the rest of the document it stands
find_next(days, k) ==
    IF k > Len(days) THEN NoBlock
    ELSE IF days[k].detail # NoBlock THEN days[k].detail
    ELSE find_next(days, k + 1)

RECURSIVE LookupLogs(_, _)
\* the ERROR entries of the lookups 1..n on one block, in order
LookupLogs(weather_detail, n) ==
    IF n = 0 THEN <<>>
    ELSE LookupLogs(weather_detail, n - 1)
         \o safe_find(weather_detail, Lookups[n].selector, Lookups[n].attribute).logs

\* 'Clean up the data': the value as stored, for a field that was found
CleanUp(f, value) ==
    IF value = NoValue THEN value
    ELSE IF f = "wind_direction"
         THEN [value EXCEPT !.form = "split(':')[1].strip().split()[0]"]
    ELSE IF f \in {"max_temp", "min_temp"} THEN [value EXCEPT !.form = "strip('C')"]
    ELSE value

\* one pass of the loop body for header k: the record, whether the body raised
\* (the day is then not appended), and what was logged
ProcessDay(issued, days, k) ==
    LET date == calculate_date(issued, days[k].date_str)
        weather_detail == find_next(days, k)
        found == [f \in Fields |->
                    safe_find(weather_detail, Lookups[LookupOf(f)].selector,
                              Lookups[LookupOf(f)].attribute).value]
        \* .split(':')[1] or .split()[0] raises IndexError on a title without
        \* a colon, or with nothing after it
        raised == found["wind_direction"] # NoValue
                  /\ weather_detail.title # "Direction: SW"
        logs == date.logs \o LookupLogs(weather_detail, Len(Lookups))
    IN  [forecast |-> [date |-> date.date,
                       fields |-> [f \in Fields |-> CleanUp(f, found[f])]],
         raised |-> raised,
         logs |-> IF raised THEN logs \o <<"Error processing forecast">> ELSE logs]

RECURSIVE ScanDays(_, _, _)
\* the for loop over soup.find_all('h2') from header k on
ScanDays(issued, days, k) ==
    IF k > Len(days) \/ days[k].date_str.text = "Forecast by"
    THEN [forecast_data |-> <<>>, logs |-> <<>>]
    ELSE LET day == ProcessDay(issued, days, k)
             rest == ScanDays(issued, days, k + 1)
         IN  [forecast_data |-> (IF day.raised THEN <<>> ELSE <<day.forecast>>)
                                \o rest.forecast_data,
              logs |-> day.logs \o rest.logs]

\* scrape_weather_data(html_content, logger): (issued_on, forecast_data) and what it logs
scrape_weather_data(page) ==
    IF page.issued.shape = "missing"
    THEN [issued_on |-> NoDate, forecast_data |-> <<>>,
          logs |-> <<"Could not find issued_on date">>]
    ELSE IF page.issued.shape \notin {"%I:%M%p", "%H:%M"}
    THEN [issued_on |-> NoDate, forecast_data |-> <<>>,
          logs |-> <<"Error parsing issued_on date">>]
    ELSE LET scan == ScanDays(page.issued.at, page.days, 1)
         IN  [issued_on |-> page.issued.at, forecast_data |-> scan.forecast_data,
              logs |-> scan.logs]

----------------------------------------------------------------------------
(* The pages the fetch can return in the pipeline, by content.              *)

Banner(shape, at) == [shape |-> shape, at |-> at]
Day(date_str, detail) == [date_str |-> date_str, detail |-> detail]

Contents == {1, 2, 3, 4}

PageOf(c) ==
    CASE c = 1 -> [issued |-> Banner("%I:%M%p", EpochDate),
                   days |-> <<Day(Label("Today"), FullBlock(1)),
                              Day(Label("Tomorrow"), FullBlock(2)),
                              Day(Label("Forecast by"), NoBlock)>>]
      [] c = 2 -> [issued |-> Banner("%H:%M", EpochDate),
                   days |-> <<Day(DayLabel(1, 1),
                                  [FullBlock(1) EXCEPT !.elems = Selectors \
                                     {"div.weather-detail:nth-of-type(4) div.weather-value"}])>>]
      [] c = 3 -> [issued |-> Banner("missing", NoDate), days |-> <<>>]
      [] c = 4 -> [issued |-> Banner("%I:%M%p", EpochDate),
                   days |-> <<Day(Label("Forecast by"), NoBlock)>>]

\* hashlib.md5(html_content.encode()).hexdigest(): one digest per content
Md5(c) == <<"md5", c>>

----------------------------------------------------------------------------
(* The store.  A statement or commit ends "ok", or fails leaving the open   *)
(* transaction as it was ("fail": a constraint, a locked database), or      *)
(* fails and sqlite rolls the open transaction back ("abort": disk full,    *)
(* I/O error).  st is [cur, db, file].                                      *)

Outcomes == {"ok", "fail", "abort"}
Failures == {"fail", "abort"}

EmptyStore == [html |-> {}, fc |-> {}, logs |-> {}, rs |-> {}]

\* AUTOINCREMENT: the next row id of a table
NextId(rows) ==
    IF rows = {} THEN 1 ELSE 1 + CHOOSE i \in {r.id : r \in rows} : \A r \in rows : r.id <= i

\* cursor.execute of a statement whose effect on the connection's view is `after`
Execute(st, o, after) ==
    IF o = "ok" THEN [st |-> [st EXCEPT !.cur = after], ok |-> TRUE]
    ELSE IF o = "fail" THEN [st |-> st, ok |-> FALSE]
    ELSE [st |-> [st EXCEPT !.cur = st.db], ok |-> FALSE]

\* conn.commit()
Commit(st, o) ==
    IF o = "ok" THEN [st |-> [st EXCEPT !.db = st.cur], ok |-> TRUE]
    ELSE IF o = "fail" THEN [st |-> st, ok |-> FALSE]
    ELSE [st |-> [st EXCEPT !.cur = st.db], ok |-> FALSE]

\* conn.rollback(); conn.close() and the end of the process drop the open transaction too
Rollback(st) == [st EXCEPT !.cur = st.db]

\* FOREIGN KEY (html_content_id) REFERENCES html_content (id), with foreign_keys = ON
ForeignKeyOk(view, id) == id = NoId \/ \E r \in view.html : r.id = id

\* what a log call's INSERT and commit do: <<insert outcome, commit outcome>>
LogOutcomes == {<<"ok", "ok">>, <<"fail", "ok">>, <<"abort", "ok">>,
                <<"ok", "fail">>, <<"ok", "abort">>}

Cost(o) == IF o = <<"ok", "ok">> THEN 0 ELSE 1

\* log without the except branch's file entry
Log_without_fallback(st, ts, lid, level, message, o) ==
    LET row == [id |-> NextId(st.cur.logs), timestamp |-> ts, level |-> level,
                message |-> message, html_content_id |-> lid]
        ins == IF ForeignKeyOk(st.cur, lid)
               THEN Execute(st, o[1], [st.cur EXCEPT !.logs = @ \cup {row}])
               ELSE [st |-> st, ok |-> FALSE]
        com == IF ins.ok THEN Commit(ins.st, o[2]) ELSE ins
    IN  com.st

\* DatabaseLogger.log(level, message) at time ts with self.html_content_id = lid
Log(st, ts, lid, level, message, o) ==
    LET row == [id |-> NextId(st.cur.logs), timestamp |-> ts, level |-> level,
                message |-> message, html_content_id |-> lid]
        ins == IF ForeignKeyOk(st.cur, lid)
               THEN Execute(st, o[1], [st.cur EXCEPT !.logs = @ \cup {row}])
               ELSE [st |-> st, ok |-> FALSE]
        com == IF ins.ok THEN Commit(ins.st, o[2]) ELSE ins
    IN  IF com.ok THEN com.st
        ELSE [com.st EXCEPT !.file = Append(@, [asctime |-> ts, level |-> level, message |-> message])]

RECURSIVE LogAll(_, _, _, _, _, _)
\* the log calls of one step, in order, each with its own outcome
LogAll(st, ts, lid, level, messages, os) ==
    IF messages = <<>> THEN st
    ELSE LogAll(Log(st, ts, lid, level, Head(messages), Head(os)),
                ts, lid, level, Tail(messages), Tail(os))

\* check_content_exists with two_days_ago two days before today
check_content_exists_from_today(view, content_hash, now) ==
    LET tomorrow == AddDays(DateOf(now), 1)
        two_days_ago == AddDays(DateOf(now), 0 - 2)
        found == {r \in view.html : /\ r.content_hash = content_hash
                                    /\ DateLE(two_days_ago, r.fetched_at.date)
                                    /\ DateLE(r.fetched_at.date, tomorrow)}
    IN  IF found = {} THEN NoId ELSE CHOOSE i \in {r.id : r \in found} : TRUE

\* check_content_exists(cursor, content_hash): the id fetchone() returns, or None
check_content_exists(view, content_hash, now) ==
    LET tomorrow == AddDays(DateOf(now), 1)
        two_days_ago == AddDays(tomorrow, 0 - 2)
        found == {r \in view.html : /\ r.content_hash = content_hash
                                    /\ DateLE(two_days_ago, r.fetched_at.date)
                                    /\ DateLE(r.fetched_at.date, tomorrow)}
    IN  IF found = {} THEN NoId ELSE CHOOSE i \in {r.id : r \in found} : TRUE

\* a plain INSERT into a run_status without the UNIQUE run_date
UpsertStatus_plain_insert(view, run_date, status, id) ==
    [view EXCEPT !.rs = @ \cup {[run_date |-> run_date, status |-> status,
                                 html_content_id |-> id]}]

\* INSERT OR REPLACE INTO run_status: run_date is UNIQUE (the row's own id is left out)
UpsertStatus(view, run_date, status, id) ==
    [view EXCEPT !.rs = {r \in @ : r.run_date # run_date}
                        \cup {[run_date |-> run_date, status |-> status,
                               html_content_id |-> id]}]

\* content_hash TEXT UNIQUE: the snapshot INSERT raises IntegrityError
UniqueViolation(view, content) == \E r \in view.html : r.content_hash = Md5(content)

\* insert_data(conn, cursor, html_content, issued_on, forecast_data, logger), called by
\* main with an open connection.  Statement number failAt of the try block fails with
\* `kind` (1: the snapshot INSERT, 2..n+1: the forecast INSERTs, n+2: the run_status
\* upsert, n+3: the commit; 0: none); oLog is the outcome of the one log call made.
\* Gives the store, the id returned (NoId: None) and logger.html_content_id.
insert_data(st, ts, now, content, issued, data, lid, failAt, kind, oLog) ==
    LET n == Len(data)
        unique == UniqueViolation(st.cur, content)
        at == IF unique THEN 1 ELSE failAt
        how == IF unique THEN "fail" ELSE kind
        id == NextId(st.cur.html)
        snapshot == [st.cur EXCEPT !.html = @ \cup
                        {[id |-> id, content_hash |-> Md5(content), content |-> content,
                          fetched_at |-> [date |-> DateOf(now), time |-> ts]]}]
        Forecasts(k) == [snapshot EXCEPT !.fc = @ \cup
                            {[id |-> NextId(st.cur.fc) + j - 1, html_content_id |-> id,
                              issued_on |-> issued, forecast |-> data[j]] : j \in 1..k}]
        status == UpsertStatus(Forecasts(n), DateOf(now), "SUCCESS", id)
        \* the connection's view when statement number i is reached
        Before(i) == IF i = 1 THEN st.cur
                     ELSE IF i <= n + 2 THEN Forecasts(i - 2)
                     ELSE status
        set_id == IF at = 1 THEN lid ELSE id
    IN  IF at = 0
        THEN [st |-> Log(Commit([st EXCEPT !.cur = status], "ok").st, ts, id, "INFO",
                         "Successfully inserted forecasts into the database", oLog),
              id |-> id, logger_id |-> id]
        ELSE LET raised == IF at = n + 3
                           THEN Commit([st EXCEPT !.cur = status], how).st
                           ELSE Execute([st EXCEPT !.cur = Before(at)], how, Before(at)).st
             IN  [st |-> Rollback(Log(raised, ts, set_id, "ERROR",
                                      "Error inserting data into database", oLog)),
                  id |-> NoId, logger_id |-> set_id]

\* a dedup hit that also records today's run as a success of the snapshot found
DedupHit_with_status(st, ts, lid, now, id, o) ==
    LET upsert == [st EXCEPT !.cur = UpsertStatus(@, DateOf(now), "SUCCESS", id)]
    IN  Log(Commit(upsert, "ok").st, ts, lid, "INFO",
            "Content has already been processed in the last 3 days", o)

\* main on a dedup hit (lines 304-305): the INFO entry, nothing else
DedupHit(st, ts, lid, now, id, o) ==
    Log(st, ts, lid, "INFO", "Content has already been processed in the last 3 days", o)

----------------------------------------------------------------------------
(* main(url), one step per call it makes.                                   *)

Store == [cur |-> cur, db |-> db, file |-> fileLog]

SetStore(st) == cur' = st.cur /\ db' = st.db /\ fileLog' = st.file

Budget(cost) == faults + cost <= MaxFaults /\ faults' = faults + cost

ResetLocals ==
    /\ html_content' = NoId
    /\ hit' = 0 - 1
    /\ issued_on' = NoDate
    /\ forecast_data' = <<>>
    /\ html_content_id' = 0 - 1
    /\ logger_id' = NoId

\* an sqlite3.Error nobody catches ends the process: no 'finished' entry, no
\* conn.close(); the open transaction is lost
Crash(st) ==
    /\ SetStore(Rollback(st))
    /\ pc' = "crashed"
    /\ conn' = "abandoned"

Init ==
    /\ today = 0
    /\ db = EmptyStore
    /\ cur = EmptyStore
    /\ fileLog = <<>>
    /\ conn = "none"
    /\ pc = "idle"
    /\ run = 0
    /\ faults = 0
    /\ html_content = NoId
    /\ hit = 0 - 1
    /\ issued_on = NoDate
    /\ forecast_data = <<>>
    /\ html_content_id = 0 - 1
    /\ logger_id = NoId
    /\ arg = <<>>
    /\ ret = <<>>

\* time passes between two runs; the clock may also be set back
ClockChange ==
    /\ pc \in {"idle", "done", "crashed"}
    /\ \E d \in 0..MaxDay : d # today /\ today' = d
    /\ pc' = "idle"
    /\ conn' = "none"
    /\ ResetLocals
    /\ UNCHANGED <<db, cur, fileLog, run, faults, arg, ret>>

\* scraper_logs rows and file entries of earlier runs are left out of the state when a
\* run starts: no statement of the program reads them
Archived(store) == [store EXCEPT !.logs = {}]

\* create_database() succeeds; logger.log("INFO", "Weather scraper started ...")
Start ==
    /\ pc \in {"idle", "done", "crashed"}
    /\ run < MaxRuns
    /\ \E o \in LogOutcomes :
          /\ Budget(Cost(o))
          /\ SetStore(Log([cur |-> Archived(db), db |-> Archived(db), file |-> <<>>],
                          run + 1, NoId,
                          "INFO", "Weather scraper started", o))
    /\ run' = run + 1
    /\ conn' = "open"
    /\ pc' = "fetch"
    /\ ResetLocals
    /\ UNCHANGED <<today, arg, ret>>

\* create_database() fails: logging.error("Database error"), main prints and returns
StartNoDatabase ==
    /\ pc \in {"idle", "done", "crashed"}
    /\ run < MaxRuns
    /\ Budget(1)
    /\ fileLog' = Append(fileLog, [asctime |-> run + 1, level |-> "ERROR",
                                   message |-> "Database error"])
    /\ run' = run + 1
    /\ conn' = "none"
    /\ pc' = "idle"
    /\ ResetLocals
    /\ UNCHANGED <<today, db, cur, arg, ret>>

\* fetch_html_content(url, logger): the page's text, or None after a RequestException
\* (logged), or an empty text
Fetch ==
    /\ pc = "fetch"
    /\ \/ \E c \in Contents :
             /\ html_content' = c
             /\ pc' = "dedup"
             /\ UNCHANGED <<db, cur, fileLog, faults>>
       \/ \E o \in LogOutcomes :
             /\ Budget(Cost(o))
             /\ SetStore(Log(Store, run, logger_id, "ERROR",
                             "An error occurred while fetching the URL", o))
             /\ html_content' = NoId
             /\ pc' = "recordfail"
       \/ /\ html_content' = NoId
          /\ pc' = "recordfail"
          /\ UNCHANGED <<db, cur, fileLog, faults>>
    /\ UNCHANGED <<today, conn, run, hit, issued_on, forecast_data, html_content_id,
                   logger_id, arg, ret>>

\* content_hash = md5(...); check_content_exists(cursor, content_hash), whose SELECT
\* is not guarded
DedupCheck ==
    /\ pc = "dedup"
    /\ \/ \E how \in Failures :
             /\ Budget(1)
             /\ Crash(Execute(Store, how, cur).st)
             /\ UNCHANGED hit
       \/ LET id == check_content_exists(cur, Md5(html_content), today)
          IN  /\ hit' = id
              /\ conn' = conn
              /\ IF id # NoId
                 THEN \E o \in LogOutcomes :
                         /\ Budget(Cost(o))
                         /\ SetStore(DedupHit(Store, run, logger_id, today, id, o))
                         /\ pc' = "finish"
                 ELSE /\ pc' = "scrape"
                      /\ UNCHANGED <<db, cur, fileLog, faults>>
    /\ UNCHANGED <<today, run, html_content, issued_on, forecast_data, html_content_id,
                   logger_id, arg, ret>>

\* issued_on, forecast_data = scrape_weather_data(html_content, logger)
Scrape ==
    /\ pc = "scrape"
    /\ LET r == scrape_weather_data(PageOf(html_content))
       IN  /\ \E os \in [1..Len(r.logs) -> LogOutcomes] :
                 /\ Budget(Cardinality({i \in 1..Len(r.logs) : Cost(os[i]) = 1}))
                 /\ SetStore(LogAll(Store, run, logger_id, "ERROR", r.logs, os))
           /\ issued_on' = r.issued_on
           /\ forecast_data' = r.forecast_data
           /\ pc' = IF r.issued_on # NoDate /\ r.forecast_data # <<>>
                    THEN "insert" ELSE "recordfail"
    /\ UNCHANGED <<today, conn, run, html_content, hit, html_content_id, logger_id,
                   arg, ret>>

\* html_content_id = insert_data(...), and on success main's own INFO entry
InsertData ==
    /\ pc = "insert"
    /\ \E failAt \in 0..(Len(forecast_data) + 3), kind \in Failures,
          oLog \in LogOutcomes, oMain \in LogOutcomes :
          LET r == insert_data(Store, run, today, html_content, issued_on,
                               forecast_data, logger_id, failAt, kind, oLog)
          IN  /\ failAt = 0 => kind = "fail"
              /\ UniqueViolation(cur, html_content) => failAt = 0
              /\ r.id = NoId => oMain = <<"ok", "ok">>
              /\ Budget((IF failAt = 0 THEN 0 ELSE 1) + Cost(oLog) + Cost(oMain))
              /\ html_content_id' = r.id
              /\ logger_id' = r.logger_id
              /\ IF r.id # NoId
                 THEN /\ SetStore(Log(r.st, run, r.logger_id, "INFO",
                             "Weather forecast data has been successfully scraped and stored",
                             oMain))
                      /\ pc' = "finish"
                 ELSE /\ SetStore(r.st)
                      /\ pc' = "recordfail"
    /\ UNCHANGED <<today, conn, run, html_content, hit, issued_on, forecast_data,
                   arg, ret>>

\* 'Update run status to FAIL': the upsert and commit main issues in each of its
\* three failure branches, outside any try
RecordFail ==
    /\ pc = "recordfail"
    /\ \E oExecute \in Outcomes, oCommit \in Outcomes :
          LET upsert == Execute(Store, oExecute,
                                UpsertStatus(cur, DateOf(today), "FAIL", NoId))
              commit == Commit(upsert.st, oCommit)
          IN  /\ oExecute # "ok" => oCommit = "ok"
              /\ Budget(IF oExecute = "ok" /\ oCommit = "ok" THEN 0 ELSE 1)
              /\ IF upsert.ok /\ commit.ok
                 THEN SetStore(commit.st) /\ pc' = "finish" /\ conn' = conn
                 ELSE Crash(IF upsert.ok THEN commit.st ELSE upsert.st)
    /\ UNCHANGED <<today, run, html_content, hit, issued_on, forecast_data,
                   html_content_id, logger_id, arg, ret>>

\* logger.log("INFO", "Weather scraper finished ..."); conn.close()
Finish ==
    /\ pc = "finish"
    /\ \E o \in LogOutcomes :
          /\ Budget(Cost(o))
          /\ SetStore(Rollback(Log(Store, run, logger_id, "INFO",
                                   "Weather scraper finished", o)))
    /\ conn' = "closed"
    /\ pc' = "done"
    /\ UNCHANGED <<today, run, html_content, hit, issued_on, forecast_data,
                   html_content_id, logger_id, arg, ret>>

Next ==
    \/ ClockChange
    \/ Start
    \/ StartNoDatabase
    \/ Fetch
    \/ DedupCheck
    \/ Scrape
    \/ InsertData
    \/ RecordFail
    \/ Finish

Spec == Init /\ [][Next]_vars

----------------------------------------------------------------------------
(* calculate_date applied to every issued-on date of the years in range and *)
(* every day label.                                                         *)

Years == 2023..(2023 + YearSpan)

Dates == {d \in Years \X (1..12) \X (1..31) : IsDate(d)}

\* the labels a page can carry: every day and month of the calendar (29 February
\* included), a day no month has, and the three fixed texts
DateLabels ==
    {DayLabel(d, m) : d \in 1..31, m \in 1..12}
    \cup {Label("Today"), Label("Tomorrow"), Label("Outlook")}

InitDate ==
    /\ today = 0
    /\ db = EmptyStore
    /\ cur = EmptyStore
    /\ fileLog = <<>>
    /\ conn = "none"
    /\ run = 0
    /\ faults = 0
    /\ html_content = NoId
    /\ hit = 0 - 1
    /\ issued_on = NoDate
    /\ forecast_data = <<>>
    /\ html_content_id = 0 - 1
    /\ logger_id = NoId
    /\ pc = "call"
    /\ arg \in [issued_on : Dates, date_str : DateLabels]
    /\ ret = [date |-> NoDate, logs |-> <<>>]

CalculateDate ==
    /\ pc = "call"
    /\ ret' = calculate_date(arg.issued_on, arg.date_str)
    /\ pc' = "return"
    /\ UNCHANGED <<today, db, cur, fileLog, conn, run, faults, html_content, hit,
                   issued_on, forecast_data, html_content_id, logger_id, arg>>

NextDate == CalculateDate

SpecDate == InitDate /\ [][NextDate]_vars

----------------------------------------------------------------------------
(* scrape_weather_data applied to every page of up to MaxHeaders day        *)
(* headers, built header by header.                                         *)

ScrapeLabels == {Label("Today"), Label("Forecast by"), Label("Outlook")}

\* the blocks that can follow header number v: none, the full one, one with a
\* single selector matching nothing, one with a single attribute missing, one
\* whose wind title has no colon
BlockVariants(v) ==
    {NoBlock, FullBlock(v), [FullBlock(v) EXCEPT !.title = "SW"]}
    \cup {[FullBlock(v) EXCEPT !.elems = Selectors \ {s}] : s \in Selectors}
    \cup {[FullBlock(v) EXCEPT !.attrs = Attributes \ {a}] : a \in Attributes}

Banners == {Banner("missing", NoDate), Banner("unparseable", NoDate),
            Banner("%I:%M%p", EpochDate), Banner("%H:%M", EpochDate)}

InitScrape ==
    /\ today = 0
    /\ db = EmptyStore
    /\ cur = EmptyStore
    /\ fileLog = <<>>
    /\ conn = "none"
    /\ run = 0
    /\ faults = 0
    /\ html_content = NoId
    /\ hit = 0 - 1
    /\ issued_on = NoDate
    /\ forecast_data = <<>>
    /\ html_content_id = 0 - 1
    /\ logger_id = NoId
    /\ pc = "call"
    /\ arg \in {[issued |-> b, days |-> <<>>] : b \in Banners}
    /\ ret = [issued_on |-> NoDate, forecast_data |-> <<>>, logs |-> <<>>]

\* the page under construction gets one more header, with or without its block
AddHeader ==
    /\ pc = "call"
    /\ Len(arg.days) < MaxHeaders
    /\ \E l \in ScrapeLabels, b \in BlockVariants(Len(arg.days) + 1) :
          arg' = [arg EXCEPT !.days = Append(@, Day(l, b))]
    /\ UNCHANGED <<today, db, cur, fileLog, conn, pc, run, faults, html_content, hit,
                   issued_on, forecast_data, html_content_id, logger_id, ret>>

ScrapeWeatherData ==
    /\ pc = "call"
    /\ ret' = scrape_weather_data(arg)
    /\ pc' = "return"
    /\ UNCHANGED <<today, db, cur, fileLog, conn, run, faults, html_content, hit,
                   issued_on, forecast_data, html_content_id, logger_id, arg>>

NextScrape == AddHeader \/ ScrapeWeatherData

SpecScrape == InitScrape /\ [][NextScrape]_vars

----------------------------------------------------------------------------
(* Properties.                                                              *)

LogRow(view, ts, message) == {r \in view.logs : r.timestamp = ts /\ r.message = message}

InFile(ts, message) ==
    \E i \in 1..Len(fileLog) : fileLog[i].asctime = ts /\ fileLog[i].message = message

\* the rows this run's insert_data wrote
SnapshotsOfRun(view) == {r \in view.html : r.fetched_at.time = run}
ForecastsOfRun(view) ==
    {f \in view.fc : \E r \in SnapshotsOfRun(view) : r.id = f.html_content_id}

StatusOf(view, date) == {r \in view.rs : r.run_date = date}

\* C1: when insert_data has returned None, html_content and forecasts hold no row
\* written by that call.
C1_InsertIsAtomic ==
    (pc = "recordfail" /\ html_content_id = NoId)
        => SnapshotsOfRun(db) = {} /\ ForecastsOfRun(db) = {}

\* C2: with no storage failure, a finished run that fetched content whose hash an
\* earlier run stored outside the dedup window (so the check missed), and that
\* extracted an issued-on date and at least one record, has inserted a new snapshot
\* with its forecasts and left today's run_status at SUCCESS with the new id.
C2_DedupIsWindowed ==
    ( /\ pc = "done" /\ faults = 0 /\ hit = NoId
      /\ issued_on # NoDate /\ forecast_data # <<>>
      /\ \E old \in db.html : /\ old.content_hash = Md5(html_content)
                              /\ old.fetched_at.time < run )
        => \E r \in SnapshotsOfRun(db) :
              /\ r.content_hash = Md5(html_content)
              /\ ForecastsOfRun(db) # {}
              /\ StatusOf(db, DateOf(today)) =
                    {[run_date |-> DateOf(today), status |-> "SUCCESS",
                      html_content_id |-> r.id]}

\* the rows with the fetched content's hash whose fetch day lies in today+lo..today+hi
SameHashWithin(lo, hi) ==
    {r \in cur.html : /\ r.content_hash = Md5(html_content)
                      /\ OrdinalOf(r.fetched_at.date) \in (today + lo)..(today + hi)}

Checked == pc = "scrape" \/ (pc = "finish" /\ hit > NoId)

\* C3 (as amended): check_content_exists reports a hit exactly when html_content holds
\* a row with that hash fetched on a day d with today-1 <= d <= today+1.
C3_WindowIsYesterdayToTomorrow ==
    Checked => IF SameHashWithin(0 - 1, 1) = {} THEN hit = NoId
               ELSE hit \in {r.id : r \in SameHashWithin(0 - 1, 1)}

\* C3 (as claimed): ... with today-2 <= d <= today+1.
C3_WindowFromTwoDaysAgo ==
    Checked => IF SameHashWithin(0 - 2, 1) = {} THEN hit = NoId
               ELSE hit \in {r.id : r \in SameHashWithin(0 - 2, 1)}

\* a check that missed a row with the same hash fetched two days ago
C3_Witness ==
    /\ pc = "scrape" /\ hit = NoId
    /\ \E r \in cur.html : /\ r.content_hash = Md5(html_content)
                           /\ OrdinalOf(r.fetched_at.date) = today - 2

AlreadyProcessed == "Content has already been processed in the last 3 days"

\* C4: from the dedup hit to the end of the run no step changes html_content,
\* forecasts or run_status, extraction and insert_data are not run, scraper_logs
\* only grows, and the 'already processed' entry has been logged (to scraper_logs,
\* or to the file when that write failed).
C4_DedupHitIsNoOp ==
    [][hit' > NoId =>
          /\ db'.html = db.html /\ db'.fc = db.fc /\ db'.rs = db.rs
          /\ cur'.html = cur.html /\ cur'.fc = cur.fc /\ cur'.rs = cur.rs
          /\ db.logs \subseteq db'.logs
          /\ pc' \in {"finish", "done"}
          /\ issued_on' = NoDate /\ forecast_data' = <<>> /\ html_content_id' = 0 - 1
          /\ (LogRow(db, run, AlreadyProcessed) # {} \/ InFile(run, AlreadyProcessed))'
      ]_vars

\* a finished dedup run with its entry in scraper_logs and no run_status row for today
C4_Witness ==
    /\ pc = "done" /\ hit > NoId
    /\ LogRow(db, run, AlreadyProcessed) # {}
    /\ StatusOf(db, DateOf(today)) = {}
    /\ db.rs # {}

Fatal ==
    \/ html_content = NoId
    \/ hit = NoId /\ (issued_on = NoDate \/ forecast_data = <<>>)
    \/ html_content_id = NoId

\* C5: a run aborted by a fetch failure, an extraction failure or a failed insert_data
\* ends with today's run_status row equal to (FAIL, null), and only such a run writes
\* FAIL.
C5_FatalErrorsRecordFail ==
    /\ (pc \in {"finish", "done", "crashed"} /\ Fatal)
          => StatusOf(db, DateOf(today)) =
                {[run_date |-> DateOf(today), status |-> "FAIL", html_content_id |-> NoId]}
    /\ pc = "recordfail" => Fatal

StatusRowsOk(view) ==
    /\ \A r, q \in view.rs : r.run_date = q.run_date => r = q
    /\ \A r \in view.rs :
          \/ /\ r.status = "SUCCESS"
             /\ r.html_content_id # NoId
             /\ \E h \in view.html : h.id = r.html_content_id
             /\ \E f \in view.fc : f.html_content_id = r.html_content_id
          \/ /\ r.status = "FAIL"
             /\ r.html_content_id = NoId

\* C6: run_status has at most one row per run date, a SUCCESS row carries the id of an
\* html_content row that has a forecasts row, a FAIL row carries no id, and right
\* after insert_data returned an id today's row is SUCCESS with that id.
C6_RunStatusRows ==
    /\ StatusRowsOk(db)
    /\ StatusRowsOk(cur)
    /\ (pc = "finish" /\ html_content_id > NoId)
          => StatusOf(db, DateOf(today)) =
                {[run_date |-> DateOf(today), status |-> "SUCCESS",
                  html_content_id |-> html_content_id]}

\* insert_data has just returned an id on a day after a failed run's day
C6_Witness ==
    /\ pc = "finish" /\ html_content_id > NoId
    /\ \E r \in db.rs : r.status = "FAIL" /\ r.run_date # DateOf(today)
    /\ Cardinality(db.fc) >= 2

\* C7: a run that opened the connection and has ended has logged 'finished' and
\* closed the connection.
C7_RunAlwaysFinishes ==
    pc \in {"done", "crashed"}
        => /\ conn = "closed"
           /\ (LogRow(db, run, "Weather scraper finished") # {}
               \/ InFile(run, "Weather scraper finished"))

Started == "Weather scraper started"
Finished == "Weather scraper finished"

LogEntry(ts, level, message) == [asctime |-> ts, level |-> level, message |-> message]

\* the one log call of Start, on a fresh connection with no id set
StartLogStep ==
    (pc # "fetch" /\ pc' = "fetch") =>
        LET row == [id |-> 1, timestamp |-> run', level |-> "INFO", message |-> Started,
                    html_content_id |-> NoId]
        IN  \/ db'.logs = {row} /\ cur'.logs = {row} /\ fileLog' = <<>>
            \/ /\ fileLog' = <<LogEntry(run', "INFO", Started)>>
               /\ db'.logs = {}
               /\ cur'.logs \in {{}, {row}}

\* the one log call of Finish, followed by conn.close()
FinishLogStep ==
    (pc = "finish" /\ pc' = "done") =>
        LET row == [id |-> NextId(cur.logs), timestamp |-> run, level |-> "INFO",
                    message |-> Finished, html_content_id |-> logger_id]
        IN  /\ cur' = db'
            /\ \/ db'.logs = cur.logs \cup {row} /\ fileLog' = fileLog
               \/ /\ fileLog' = Append(fileLog, LogEntry(run, "INFO", Finished))
                  /\ db'.logs = db.logs

\* every row carries the id the logger held when it was written
LogRowsTagged ==
    pc # "idle" =>
        /\ logger_id # NoId => html_content_id # 0 - 1
        /\ \A r \in db.logs \cup cur.logs :
              IF r.message \in {"Successfully inserted forecasts into the database",
                                "Weather forecast data has been successfully scraped and stored"}
              THEN r.html_content_id = html_content_id /\ html_content_id > NoId
              ELSE IF r.message \in {"Error inserting data into database", Finished}
              THEN r.html_content_id = logger_id
              ELSE r.html_content_id = NoId

\* C8 (as amended): log never stops the step that called it; when its INSERT and commit
\* succeed the row is appended, tagged with the id then set on the logger (null until
\* insert_data has set one); when either fails the same level and message go to the
\* file, and no row is added by a failed INSERT, while after a failed commit the row
\* inserted may stay in the connection's open transaction.
C8_LogFallsBackToFile ==
    /\ [][StartLogStep /\ FinishLogStep]_vars
    /\ []LogRowsTagged
    /\ [](pc \notin {"idle", "crashed"} => LogRow(db, run, Started) # {} \/ InFile(run, Started))
    /\ [](pc = "done" => LogRow(db, run, Finished) # {} \/ InFile(run, Finished))

\* C8 (as claimed): an entry written to the file has no row in scraper_logs.
C8_NoRowWhenWriteFails ==
    \A i \in 1..Len(fileLog) :
        \A r \in db.logs :
            ~(/\ r.timestamp = fileLog[i].asctime
              /\ r.level = fileLog[i].level
              /\ r.message = fileLog[i].message)

\* the 'started' entry went to the file after its commit failed, and its row is
\* still in the open transaction
C8_Witness ==
    /\ pc = "fetch"
    /\ fileLog = <<LogEntry(run, "INFO", Started)>>
    /\ LogRow(cur, run, Started) # {}
    /\ db.logs = {}

\* C9: for a label '<Weekday>, <Day> <Month>' naming a calendar day (29 February
\* included), the date resolved has the label's day and month, in issuedOn's year + 1
\* when (month, day) is earlier than issuedOn's and in issuedOn's year otherwise
\* (whenever that year has the day), and is never before issuedOn's date.
C9_YearResolution ==
    ( /\ pc = "return"
      /\ arg.date_str.text = "%A, %d %B"
      /\ arg.date_str.day <= DaysInMonth(2024, arg.date_str.month) )
        => LET m == arg.date_str.month
               d == arg.date_str.day
               earlier == \/ m < arg.issued_on[2]
                          \/ m = arg.issued_on[2] /\ d < arg.issued_on[3]
               y == IF earlier THEN arg.issued_on[1] + 1 ELSE arg.issued_on[1]
           IN  d <= DaysInMonth(y, m)
                  => ret.date = <<y, m, d>> /\ ~DateLT(ret.date, arg.issued_on)

----------------------------------------------------------------------------
(* C10, on a page whose banner parses: arg is the page, ret the result.     *)

IsSentinel(day) == day.date_str.text = "Forecast by"

\* the headers scanned: those before the first 'Forecast by'
Scanned ==
    {k \in 1..Len(arg.days) : \A j \in 1..k : ~IsSentinel(arg.days[j])}

\* the first block at or after header k in the document
FollowingBlock(k) ==
    LET js == {j \in k..Len(arg.days) : arg.days[j].detail # NoBlock}
    IN  IF js = {} THEN NoBlock
        ELSE arg.days[CHOOSE j \in js : \A i \in js : j <= i].detail

LookupFails(block, i) ==
    \/ block = NoBlock
    \/ Lookups[i].selector \notin block.elems
    \/ Lookups[i].attribute # "" /\ Lookups[i].attribute \notin block.attrs

\* the clean-up of a wind title without a colon raises: the day is skipped
CleanUpRaises(block) ==
    ~LookupFails(block, LookupOf("wind_direction")) /\ block.title # "Direction: SW"

IsLookupError(message) == message = "Error finding element with selector"

\* the k-th smallest member of a set of numbers
RECURSIVE Nth(_, _)
Nth(S, k) ==
    LET least == CHOOSE x \in S : \A y \in S : x <= y
    IN  IF k = 1 THEN least ELSE Nth(S \ {least}, k - 1)

\* the records are those of `kept`, in header order, each field absent when its lookup
\* on BlockOf(header) fails and taken from that block otherwise
RecordsAre(kept, BlockOf(_)) ==
    /\ Len(ret.forecast_data) = Cardinality(kept)
    /\ \A n \in 1..Cardinality(kept) :
          LET block == BlockOf(Nth(kept, n))
              fields == ret.forecast_data[n].fields
          IN  \A i \in 1..Len(Lookups) :
                 IF LookupFails(block, i)
                 THEN fields[Lookups[i].field] = NoValue
                 ELSE /\ fields[Lookups[i].field].block = block.v
                      /\ fields[Lookups[i].field].selector = Lookups[i].selector
                      /\ fields[Lookups[i].field].attr = Lookups[i].attribute

ParsedPage == pc = "return" /\ ret.issued_on # NoDate

OwnBlock(k) == arg.days[k].detail

====
